---- MODULE Spec2Model ----
(***************************************************************************)
(* LatControlTorque (selfdrive/controls/lib/latcontrol_torque.py): the     *)
(* per-cycle lateral torque control law, its error history and its PID.    *)
(*                                                                         *)
(* Numbers are fixed point.  Units:                                        *)
(*   speed            0.1 m/s        (vEgo = 100 is 10 m/s)                *)
(*   speed squared    0.01 m^2/s^2   (also the unit of the speed factor)   *)
(*   curvature        1e-3 1/m                                             *)
(*   lateral accel,                                                        *)
(*   error, torque    1e-5           (curvature * speed^2)                 *)
(*   yaw rate         1e-4 rad/s     (curvature * speed)                   *)
(*   roll             1e-3 rad                                             *)
(* A float division is TruncDiv (rounds toward zero, so it is symmetric in *)
(* sign as IEEE division is); the grids that the friction table and the    *)
(* error rate are applied to are chosen so that their divisions are exact. *)
(* Float rounding itself is not modelled.                                  *)
(***************************************************************************)
EXTENDS Integers, Sequences, FiniteSets, TLC

VARIABLES
  errors,              \* self.errors
  pid_i,               \* self.pid.i, the integrator of the PIDController
  use_steering_angle,  \* self.use_steering_angle (configuration)
  last,                \* the call of this cycle: its inputs, what it returned,
                       \* its locals; idle once the result is published
  prev,                \* summary of the operation before
  run,                 \* history variable: the errors of the current run of
                       \* consecutive active cycles, in the order computed
  fn                   \* inputs and result of a pure function under test

vars == <<errors, pid_i, use_steering_angle, last, prev, run, fn>>

----------------------------------------------------------------------------
(* Arithmetic helpers *)

Abs(x) == IF x < 0 THEN -x ELSE x

\* Python's float "/" on the fixed-point grid (0 stands for the
\* ZeroDivisionError of a zero divisor)
TruncDiv(a, b) ==
  IF b = 0 THEN 0
  ELSE IF (a >= 0) = (b > 0) THEN Abs(a) \div Abs(b)
       ELSE -(Abs(a) \div Abs(b))

\* clip(x, lo, hi) as numpy's: min(max(x, lo), hi)
clip(x, lo, hi) ==
  LET m == IF x > lo THEN x ELSE lo
  IN  IF m < hi THEN m ELSE hi

\* common.numpy_fast.interp on a scalar: linear between the breakpoints,
\* the first / last table value outside them
RECURSIVE interp_hi(_, _, _)
interp_hi(xv, xp, hi) ==
  IF hi < Len(xp) /\ xv > xp[hi + 1] THEN interp_hi(xv, xp, hi + 1) ELSE hi

interp(xv, xp, fp) ==
  LET n   == Len(xp)
      hi  == interp_hi(xv, xp, 0)      \* number of breakpoints below xv
  IN  IF hi = n THEN fp[n]
      ELSE IF hi = 0 THEN fp[1]
      ELSE TruncDiv((xv - xp[hi]) * (fp[hi + 1] - fp[hi]), xp[hi + 1] - xp[hi])
           + fp[hi]

\* selfdrive.controls.lib.drive_helpers.apply_deadzone
apply_deadzone(error, deadzone) ==
  IF error > deadzone THEN error - deadzone
  ELSE IF error < -deadzone THEN error + deadzone
  ELSE 0

----------------------------------------------------------------------------
(* Program constants *)

FRICTION_THRESHOLD == 20000              \* 0.2

\* imported: latcontrol.MIN_STEER_SPEED (0.3 m/s)
MIN_STEER_SPEED == 3

\* imported: latcontrol_pid.ERROR_RATE_FRAME, the capacity N of the history
ERROR_RATE_FRAME == 3

\* imported: vehicle_model.ACCELERATION_DUE_TO_GRAVITY, 9.81 m/s^2 per rad
ACCELERATION_DUE_TO_GRAVITY == 981

\* LatControl.steer_max (1.0)
steer_max == 100000

\* the 1e-3 of the saturation test
SATURATION_EPS == 100

\* "CS.vEgo < 5" of the integrator freeze
FREEZE_SPEED == 50

\* the cycle rate of the PIDController (cycle_dt = 1 / PID_RATE)
PID_RATE == 100

\* CP.lateralTuning.torque: the gains are the rationals num / den
\* (kp = 1, ki = 50, kd = 1, kf = 1/2), friction = 0.05
CP ==
  [ kp_num |-> 2, ki_num |-> 100, kd_num |-> 2, kf_num |-> 1, den |-> 2,
    friction |-> 5000 ]

----------------------------------------------------------------------------
(* PIDController (selfdrive.controls.lib.pid) and the LatControl base class *)

\* faulty variant: the limits are not those of steer_max
pid_limits_wide == [pos |-> 10 * steer_max, neg |-> -10 * steer_max]

\* PIDController(..., pos_limit=self.steer_max, neg_limit=-self.steer_max)
pid_limits == [pos |-> steer_max, neg |-> -steer_max]

\* PIDController.update: P = kp*error, D = kd*error_rate, F = kf*feedforward;
\* the integrator accumulates ki*error*dt unless frozen and is then clamped
\* so that P + I + F stays within the limits; the output is the clamped sum.
PIDController_update(i, error, error_rate, feedforward, freeze_integrator) ==
  LET p     == TruncDiv(CP.kp_num * error, CP.den)
      f     == TruncDiv(CP.kf_num * feedforward, CP.den)
      d     == TruncDiv(CP.kd_num * error_rate, CP.den)
      i_acc == i + TruncDiv(CP.ki_num * error, CP.den * PID_RATE)
      i_new == IF freeze_integrator THEN i
               ELSE clip(i_acc, pid_limits.neg - p - f, pid_limits.pos - p - f)
  IN  [ p |-> p, i |-> i_new, d |-> d, f |-> f,
        control |-> clip(p + i_new + d + f, pid_limits.neg, pid_limits.pos) ]

\* LatControl._check_saturation(saturated, CS, steer_limited)
check_saturation(saturated, steer_limited) == saturated /\ steer_limited

----------------------------------------------------------------------------
(* LatControlTorque.update, step by step *)

\* faulty variant: the gate does not look at the speed
inactive_ignoring_speed(vEgo, active) == ~active

\* line 50: the activation gate
inactive(vEgo, active) == vEgo < MIN_STEER_SPEED \/ ~active

\* lines 56-63: the two sources of the actual curvature.  VM.calc_curvature
\* is an external model: its results are the inputs vm_curvature (at the
\* measured angle) and vm_deadzone (at the angle deadzone, zero roll).
actual_curvature(usa, in) ==
  IF usa THEN -in.vm_curvature
  ELSE LET actual_curvature_vm  == -in.vm_curvature
           actual_curvature_llk == TruncDiv(in.yaw_rate, in.vEgo)
       IN  interp(in.vEgo, <<20, 50>>,
                  <<actual_curvature_vm, actual_curvature_llk>>)

curvature_deadzone(usa, in) == IF usa THEN Abs(in.vm_deadzone) ELSE 0

\* line 74 (as written the line does not parse: "interp(CS.vEgo,(CS.vEgo,"
\* repeats the first argument; the table is the one it names)
speed_factor(vEgo) == interp(vEgo, <<0, 100, 200>>, <<50000, 50000, 20000>>)

\* lines 64, 68, 79-81
control_error(desired_curvature, actual_curv, vEgo) ==
  LET desired_lateral_accel == desired_curvature * vEgo * vEgo
      actual_lateral_accel  == actual_curv * vEgo * vEgo
      setpoint    == desired_lateral_accel + speed_factor(vEgo) * desired_curvature
      measurement == actual_lateral_accel + speed_factor(vEgo) * actual_curv
  IN  setpoint - measurement

\* faulty variant: the rate is taken against the newest error of the history
error_rate_vs_newest(errs, error) ==
  IF Len(errs) >= ERROR_RATE_FRAME
  THEN TruncDiv(error - errs[Len(errs)], ERROR_RATE_FRAME)
  ELSE 0

\* lines 84-86
error_rate_of(errs, error) ==
  IF Len(errs) >= ERROR_RATE_FRAME
  THEN TruncDiv(error - errs[Len(errs) - ERROR_RATE_FRAME + 1], ERROR_RATE_FRAME)
  ELSE 0

\* faulty variant: the newest errors are dropped instead of the oldest
trim_errors_newest(errs) ==
  IF Len(errs) > ERROR_RATE_FRAME THEN SubSeq(errs, 1, ERROR_RATE_FRAME) ELSE errs

\* lines 89-90: while len(self.errors) > ERROR_RATE_FRAME: self.errors.pop(0)
RECURSIVE trim_errors(_)
trim_errors(errs) ==
  IF Len(errs) > ERROR_RATE_FRAME THEN trim_errors(Tail(errs)) ELSE errs

\* lines 88-90
append_error(errs, error) == trim_errors(Append(errs, error))

\* faulty variant: the deadzone is not applied
friction_without_deadzone(error, lateral_accel_deadzone, friction) ==
  interp(error, <<-FRICTION_THRESHOLD, FRICTION_THRESHOLD>>, <<-friction, friction>>)

\* line 94
friction_compensation(error, lateral_accel_deadzone, friction) ==
  interp(apply_deadzone(error, lateral_accel_deadzone),
         <<-FRICTION_THRESHOLD, FRICTION_THRESHOLD>>, <<-friction, friction>>)

\* faulty variant: low speed does not freeze the integrator
freeze_without_low_speed(in) == in.steer_limited \/ in.steeringPressed

\* line 96
freeze_integrator_of(in) ==
  in.steer_limited \/ in.steeringPressed \/ in.vEgo < FREEZE_SPEED

\* faulty variant: the sign of the output is not taken off
saturation_reached_signed(output_torque) ==
  steer_max - output_torque < SATURATION_EPS

\* line 108: the first argument of _check_saturation
saturation_reached(output_torque) ==
  steer_max - Abs(output_torque) < SATURATION_EPS

\* log.ControlsState.LateralTorqueState.new_message()
new_message ==
  [ active |-> FALSE, error |-> 0, p |-> 0, i |-> 0, d |-> 0, f |-> 0,
    output |-> 0, saturated |-> FALSE,
    actualLateralAccel |-> 0, desiredLateralAccel |-> 0 ]

\* the locals of a cycle that did not take the feedback path
no_locals ==
  [ feedback |-> FALSE, error |-> 0, error_rate |-> 0,
    lateral_accel_deadzone |-> 0, speed_factor |-> 0,
    friction_compensation |-> 0, ff |-> 0, freeze_integrator |-> FALSE,
    control |-> 0 ]

\* faulty variant: the error history survives an inactive cycle
update_inactive_keeping_errors(errs, i) ==
  [ errors |-> errs, pid_i |-> i,
    output_torque |-> 0, angle_steers_des |-> 0,
    pid_log |-> new_message, loc |-> no_locals ]

\* lines 51-54
update_inactive(errs, i) ==
  [ errors |-> <<>>, pid_i |-> i,
    output_torque |-> 0, angle_steers_des |-> 0,
    pid_log |-> new_message, loc |-> no_locals ]

\* lines 56-112
update_active(errs, i, usa, in) ==
  LET actual_curv == actual_curvature(usa, in)
      desired_lateral_accel == in.desired_curvature * in.vEgo * in.vEgo
      actual_lateral_accel  == actual_curv * in.vEgo * in.vEgo
      lateral_accel_deadzone == curvature_deadzone(usa, in) * in.vEgo * in.vEgo
      error == control_error(in.desired_curvature, actual_curv, in.vEgo)
      error_rate == error_rate_of(errs, error)
      fc == friction_compensation(error, lateral_accel_deadzone, CP.friction)
      ff == desired_lateral_accel - in.roll * ACCELERATION_DUE_TO_GRAVITY
            + TruncDiv(fc * CP.den, CP.kf_num)
      freeze == freeze_integrator_of(in)
      pid == PIDController_update(i, error, error_rate, ff, freeze)
      output_torque == pid.control
  IN  [ errors |-> append_error(errs, error), pid_i |-> pid.i,
        output_torque |-> output_torque,
        angle_steers_des |-> in.steer_des,
        pid_log |->
          [ active |-> TRUE, error |-> error,
            p |-> pid.p, i |-> pid.i, d |-> pid.d, f |-> pid.f,
            output |-> -output_torque,
            saturated |-> check_saturation(saturation_reached(output_torque),
                                           in.steer_limited),
            actualLateralAccel |-> actual_lateral_accel,
            desiredLateralAccel |-> desired_lateral_accel ],
        loc |->
          [ feedback |-> TRUE, error |-> error, error_rate |-> error_rate,
            lateral_accel_deadzone |-> lateral_accel_deadzone,
            speed_factor |-> speed_factor(in.vEgo),
            friction_compensation |-> fc, ff |-> ff,
            freeze_integrator |-> freeze, control |-> output_torque ] ]

\* line 115: return -output_torque, angle_steers_des, pid_log
returned(r) ==
  [ torque |-> -r.output_torque, angle_steers_des |-> r.angle_steers_des,
    pid_log |-> r.pid_log ]

\* lines 46-115: the state after the call, what it returns, its locals
update(errs, i, usa, in) ==
  LET r == IF inactive(in.vEgo, in.active)
           THEN update_inactive(errs, i)
           ELSE update_active(errs, i, usa, in)
  IN  [ errors |-> r.errors, pid_i |-> r.pid_i, ret |-> returned(r),
        loc |-> r.loc ]

\* LatControl.reset() of the base class: it holds no state of this model
LatControl_reset(i) == i

\* lines 41-44: reset(); the PID is not reset (line 43 is commented out)
reset(errs, i) == [ errors |-> <<>>, pid_i |-> LatControl_reset(i) ]

----------------------------------------------------------------------------
(* The calls and their inputs *)

MaxRun == 5     \* longest run of consecutive active cycles that is recorded

Speeds            == {0, 2, 3, 100}
DesiredCurvatures == {-5, -3, -2}
VmCurvatures      == {3}         \* VM.calc_curvature at the measured angle
VmDeadzones       == {0, 5}      \* VM.calc_curvature at the angle deadzone
LlkCurvatures     == {-3}        \* yaw rate / speed of the localizer
Rolls             == {0, 20}
SteerAngles       == {-8, 5}     \* degrees(VM.get_steer_from_curvature) + offset

\* the arguments of update, as one record
Call(a, v, sp, sl, dc, vc, dz, lc, ro, sd) ==
  [ active |-> a, vEgo |-> v, steeringPressed |-> sp, steer_limited |-> sl,
    desired_curvature |-> dc, vm_curvature |-> vc, vm_deadzone |-> dz,
    yaw_rate |-> lc * v, roll |-> ro, steer_des |-> sd ]

\* the calls that pass the activation gate; the inputs the configured
\* curvature source does not read are held at 0
ActiveInputs(usa) ==
  { Call(TRUE, v, sp, sl, dc, vc, dz, lc, ro, sd) :
      v \in {u \in Speeds : u >= MIN_STEER_SPEED},
      sp \in BOOLEAN, sl \in BOOLEAN,
      dc \in DesiredCurvatures, vc \in VmCurvatures,
      dz \in (IF usa THEN VmDeadzones ELSE {0}),
      lc \in (IF usa THEN {0} ELSE LlkCurvatures),
      ro \in Rolls, sd \in SteerAngles }

\* the calls the gate stops: not active at any speed, or active below the
\* minimum speed; the branch reads no other input
InactiveInputs ==
  { Call(a, v, FALSE, TRUE, 1, 3, 5, -3, 20, 5) :
      a \in BOOLEAN, v \in Speeds }
  \ { Call(TRUE, v, FALSE, TRUE, 1, 3, 5, -3, 20, 5) :
      v \in {u \in Speeds : u >= MIN_STEER_SPEED} }

Inputs(usa) == ActiveInputs(usa) \cup InactiveInputs

\* the inputs of the runs whose whole error history is recorded
RunInputs ==
  { Call(a, v, FALSE, FALSE, dc, 3, 0, -3, 0, 5) :
      a \in BOOLEAN, v \in {0, 100}, dc \in DesiredCurvatures }

no_input ==
  [ active |-> FALSE, vEgo |-> 0, steeringPressed |-> FALSE,
    steer_limited |-> FALSE, desired_curvature |-> 0, vm_curvature |-> 0,
    vm_deadzone |-> 0, yaw_rate |-> 0, roll |-> 0, steer_des |-> 0 ]

\* the record of a call: which operation, whether it directly followed a
\* reset, its inputs, what it returned and its locals
no_call(op) ==
  [ op |-> op, after_reset |-> FALSE, in |-> no_input,
    ret |-> returned(update_inactive(<<>>, 0)), loc |-> no_locals ]

\* what is kept of a call once its result was published
summary(call) ==
  [ op |-> call.op, active |-> call.ret.pid_log.active,
    freeze_integrator |-> call.loc.freeze_integrator,
    i |-> call.ret.pid_log.i ]

\* __init__ (lines 28-39)
Init ==
  /\ errors = <<>>
  /\ pid_i = 0
  /\ use_steering_angle \in BOOLEAN
  /\ last = no_call("idle")
  /\ prev = summary(no_call("init"))
  /\ run = <<>>
  /\ fn = [op |-> "none"]

\* one call of update with an input of Ins, made by the control loop once
\* it has published the result of the cycle before
UpdateWith(Ins, record_run) ==
  /\ last.op = "idle"
  /\ \E in \in Ins :
       \E r \in {update(errors, pid_i, use_steering_angle, in)} :
         /\ (record_run /\ r.loc.feedback) => Len(run) < MaxRun
         /\ errors' = r.errors
         /\ pid_i' = r.pid_i
         /\ last' = [ op |-> "update", after_reset |-> (prev.op = "reset"),
                      in |-> in, ret |-> r.ret, loc |-> r.loc ]
         /\ run' = IF ~r.loc.feedback THEN <<>>
                   ELSE IF record_run THEN Append(run, r.loc.error)
                   ELSE run
  /\ UNCHANGED <<use_steering_angle, prev, fn>>

Update == UpdateWith(Inputs(use_steering_angle), FALSE)

UpdateRun == UpdateWith(RunInputs, TRUE)

\* the control loop publishes torque, angle and log of the cycle and goes on
\* to the next one
Publish ==
  /\ last.op = "update"
  /\ prev' = summary(last)
  /\ last' = no_call("idle")
  /\ UNCHANGED <<errors, pid_i, use_steering_angle, run, fn>>

\* reset(), between two cycles
Reset ==
  /\ last.op = "idle"
  /\ \E r \in {reset(errors, pid_i)} :
       /\ errors' = r.errors
       /\ pid_i' = r.pid_i
  /\ prev' = summary(no_call("reset"))
  /\ run' = <<>>
  /\ UNCHANGED <<use_steering_angle, last, fn>>

Next == Update \/ Publish \/ Reset

Spec == Init /\ [][Next]_vars

NextRun == UpdateRun \/ Publish \/ Reset

SpecRun == Init /\ [][NextRun]_vars

----------------------------------------------------------------------------
(* The pure functions of the control law, applied to inputs of a grid *)

FrictionErrors == {1000 * k : k \in -30..30}
FrictionDeadzones == {0, 2000, 50000}
Frictions == {1000, 5000}

WeightSpeeds == {50 * k : k \in 0..8}
WeightCurvatures == {-2, 0, 3}

\* line 94 at error e and at -e
ApplyFriction ==
  /\ fn.op = "none"
  /\ \E e \in FrictionErrors, dz \in FrictionDeadzones, fr \in Frictions :
       fn' = [ op |-> "friction", error |-> e, lateral_accel_deadzone |-> dz,
               friction |-> fr,
               f_pos |-> friction_compensation(e, dz, fr),
               f_neg |-> friction_compensation(-e, dz, fr) ]
  /\ UNCHANGED <<errors, pid_i, use_steering_angle, last, prev, run>>

\* lines 74-81 at two speeds and a pair of curvatures
ApplySpeedFactor ==
  /\ fn.op = "none"
  /\ \E v \in WeightSpeeds, u \in WeightSpeeds,
        dc \in WeightCurvatures, ac \in WeightCurvatures :
       fn' = [ op |-> "speed_factor", vEgo |-> v, other_vEgo |-> u,
               speed_factor |-> speed_factor(v),
               other_speed_factor |-> speed_factor(u),
               desired_curvature |-> dc, actual_curvature |-> ac,
               error |-> control_error(dc, ac, v) ]
  /\ UNCHANGED <<errors, pid_i, use_steering_angle, last, prev, run>>

NextFn == ApplyFriction \/ ApplySpeedFactor

SpecFn == Init /\ [][NextFn]_vars

----------------------------------------------------------------------------
(* Properties *)

\* the cycle whose result is waiting to be published
Called == last.op = "update"
Active == Called /\ last.loc.feedback
log == last.ret.pid_log
N == ERROR_RATE_FRAME

\* C1: a call of update with speed below MIN_STEER_SPEED or active false
\* returns torque 0 and desired angle 0, logs active = false and leaves the
\* error history empty, whatever the state before the call.
C1_InactiveCycleIsZero ==
  (Called /\ (last.in.vEgo < MIN_STEER_SPEED \/ ~last.in.active)) =>
    /\ last.ret.torque = 0
    /\ last.ret.angle_steers_des = 0
    /\ log.active = FALSE
    /\ errors = <<>>

\* an inactive cycle right after an active one (the history was not empty),
\* at a steerable speed, with a wound-up integrator
C1_Witness ==
  /\ Called /\ ~last.in.active /\ last.in.vEgo >= MIN_STEER_SPEED
  /\ prev.op = "update" /\ prev.active /\ pid_i # 0
  /\ errors = <<>>

\* C2: the torque of every update call is within [-steer_max, steer_max]:
\* the negated PID output clamped to the limits on an active cycle, 0 on an
\* inactive one.
C2_TorqueWithinSteerMax ==
  Called =>
    /\ -steer_max <= last.ret.torque /\ last.ret.torque <= steer_max
    /\ log.active =>
         last.ret.torque = -clip(log.p + log.i + log.d + log.f, -steer_max, steer_max)
    /\ ~log.active => last.ret.torque = 0

\* the sum of the terms exceeds the limit and the torque is pinned at it
C2_Witness ==
  /\ Active
  /\ log.p + log.i + log.d + log.f < -steer_max
  /\ last.ret.torque = steer_max

\* C3: reset() followed by update(x) returns what update(x) returns on a
\* newly constructed controller, and leaves the same error history and
\* integrator.
C3_ResetThenUpdateIsFresh ==
  (Called /\ last.after_reset) =>
    LET fresh == update(<<>>, 0, use_steering_angle, last.in) IN
    /\ last.ret = fresh.ret
    /\ errors = fresh.errors
    /\ pid_i = fresh.pid_i

\* C4 as stated: the error rate is 0 on the first N-1 consecutive active
\* cycles and on every later one it is (error_t - error_{t-N}) / N, with
\* error_{t-N} the error of N active cycles earlier.
C4_RateZeroForFirstNMinus1 ==
  Active =>
    LET t == Len(run) IN
    IF t <= N - 1 THEN last.loc.error_rate = 0
    ELSE /\ t - N >= 1
         /\ last.loc.error_rate = TruncDiv(run[t] - run[t - N], N)

\* C4 amended: the error rate is 0 on the first N consecutive active cycles
\* after construction, an inactive cycle or a reset, and on every later one
\* it is (error_t - error_{t-N}) / N.
C4_RateZeroForFirstN ==
  Active =>
    LET t == Len(run) IN
    /\ run[t] = last.loc.error
    /\ IF t <= N THEN last.loc.error_rate = 0
       ELSE last.loc.error_rate = TruncDiv(run[t] - run[t - N], N)

\* a cycle past the first N with a nonzero rate
C4_Witness ==
  /\ Active /\ Len(run) > N
  /\ last.loc.error_rate # 0
  /\ last.loc.error_rate = TruncDiv(run[Len(run)] - run[Len(run) - N], N)

\* C5: on an active cycle with steer_limited, steeringPressed or speed < 5
\* the integrator keeps its value while P, D and F are computed from the
\* error, the error rate and the feedforward of the cycle; after two such
\* cycles in a row the logged integral term is the same.
C5_FreezeHoldsIntegrator ==
  [][ ( /\ last.op = "idle" /\ last'.op = "update" /\ last'.loc.feedback
        /\ \/ last'.in.steer_limited
           \/ last'.in.steeringPressed
           \/ last'.in.vEgo < FREEZE_SPEED )
      => /\ pid_i' = pid_i
         /\ last'.ret.pid_log.i = pid_i
         /\ last'.ret.pid_log.p = TruncDiv(CP.kp_num * last'.loc.error, CP.den)
         /\ last'.ret.pid_log.d = TruncDiv(CP.kd_num * last'.loc.error_rate, CP.den)
         /\ last'.ret.pid_log.f = TruncDiv(CP.kf_num * last'.loc.ff, CP.den)
         /\ (prev.op = "update" /\ prev.active /\ prev.freeze_integrator)
              => last'.ret.pid_log.i = prev.i ]_vars

\* the second of two frozen active cycles, with a nonzero error, a nonzero
\* proportional term and a nonzero integrator that an unfrozen cycle would
\* have moved
C5_Witness ==
  /\ Active
  /\ last.in.vEgo < FREEZE_SPEED /\ ~last.in.steer_limited /\ ~last.in.steeringPressed
  /\ last.loc.error # 0 /\ log.p # 0 /\ log.i # 0 /\ log.i = pid_i
  /\ prev.op = "update" /\ prev.active /\ prev.freeze_integrator /\ prev.i = log.i

\* C6: on an active cycle the logged saturated flag is true exactly when
\* the clamped output is within 1e-3 of steer_max and steer_limited is set.
C6_SaturatedIffBinding ==
  Active =>
    ( log.saturated <=>
        ( /\ steer_max - Abs(log.output) < SATURATION_EPS
          /\ last.in.steer_limited ) )

\* saturation reported at the negative limit of the PID output
C6_Witness ==
  /\ Active /\ log.saturated
  /\ log.output = steer_max /\ last.in.steer_limited

\* C7: the friction term is odd in the error, 0 for every error within the
\* lateral-accel deadzone, and -friction / +friction once the
\* deadzone-adjusted error is outside [-FRICTION_THRESHOLD, FRICTION_THRESHOLD].
C7_FrictionOddDeadzoneClamped ==
  fn.op = "friction" =>
    /\ fn.f_neg = -fn.f_pos
    /\ Abs(fn.error) <= fn.lateral_accel_deadzone => fn.f_pos = 0
    /\ fn.error - fn.lateral_accel_deadzone > FRICTION_THRESHOLD
         => fn.f_pos = fn.friction
    /\ fn.error + fn.lateral_accel_deadzone < -FRICTION_THRESHOLD
         => fn.f_pos = -fn.friction

\* an error past the deadzone, inside the linear part of the table
C7_Witness ==
  /\ fn.op = "friction"
  /\ fn.lateral_accel_deadzone > 0
  /\ fn.error > fn.lateral_accel_deadzone
  /\ 0 < fn.f_pos /\ fn.f_pos < fn.friction
  /\ fn.f_neg = -fn.f_pos

\* C8: the error history never holds more than N errors; after k active
\* cycles in a row it holds the last min(k, N) errors in the order computed.
C8_HistoryIsLastN ==
  LET k == Len(run)
      m == IF k < N THEN k ELSE N
  IN  /\ Len(errors) <= N
      /\ errors = SubSeq(run, k - m + 1, k)

\* more than N active cycles in a row: the oldest errors were evicted
C8_Witness ==
  /\ Len(run) = N + 2 /\ Len(errors) = N
  /\ run[1] # run[N + 2] /\ run[1] # run[3]
  /\ errors = SubSeq(run, 3, N + 2)

\* C9: the feedback path only runs with speed > 0, for both curvature sources.
C9_FeedbackPathHasSpeed ==
  Active => last.in.vEgo > 0

\* the feedback path at the lowest speed the gate lets through
C9_Witness ==
  /\ Active /\ last.in.vEgo = MIN_STEER_SPEED /\ last.in.active

\* C10: the low-speed weight is non-increasing in speed, is zero at higher
\* speed (from the last breakpoint of its table on), enters the error as
\* (desired - actual curvature) * (speed^2 + weight), and the error is the
\* difference of the lateral accelerations once the weight is zero.
C10_WeightDecaysToZero ==
  fn.op = "speed_factor" =>
    /\ fn.vEgo <= fn.other_vEgo => fn.speed_factor >= fn.other_speed_factor
    /\ fn.error = (fn.desired_curvature - fn.actual_curvature)
                    * (fn.vEgo * fn.vEgo + fn.speed_factor)
    /\ fn.vEgo >= 200 =>
         /\ fn.speed_factor = 0
         /\ fn.error = fn.desired_curvature * fn.vEgo * fn.vEgo
                       - fn.actual_curvature * fn.vEgo * fn.vEgo

====
